---- MODULE Spec2Model ----
(***************************************************************************)
(* The batch submission engine of the climate workflow:                    *)
(*   EmissionsModule.process_emissions_data / _process_emissions_batch     *)
(*   HealthModule.calculate_city_health / _calculate_city_health_batch     *)
(*   CityModule.register_city_data, CompanyModule.register_company_data,   *)
(*   RenewalModule.calculate_renewal_metrics_workflow                      *)
(*   BlockchainWorkflow.log_to_file, run_full_workflow and main            *)
(* One asyncio event loop runs the coroutines; a coroutine is suspended    *)
(* only at an await, so every action below is the code between two awaits  *)
(* (or a part of it: a finer split only adds interleavings).               *)
(*                                                                         *)
(* A behaviour is either a run of one executor module with a configuration *)
(* of its own (wfPc = "standalone"), or one run of run_full_workflow over  *)
(* the sample data with the default configurations.                        *)
(***************************************************************************)
EXTENDS Integers, Sequences, FiniteSets, TLC

\* ------------------------------------------------------------------ bounds
MaxRecords == 3          \* aggregated records of a standalone run
MaxBatchSize == 2        \* largest batch_size of a standalone run
MaxConcurrent == 2       \* largest max_concurrent_transactions of a standalone run
MaxRows == 2             \* rows of the datasets tried with every kind of cell

\* -------------------------------------------------------- the default config
DefaultMaxConcurrent == 5
DefaultBatchSize == 100

DefaultConfig ==
    [max_concurrent_transactions |-> DefaultMaxConcurrent,
     batch_size |-> DefaultBatchSize, method |-> "sum", date_format |-> "dmy"]

Min(a, b) == IF a < b THEN a ELSE b

\* ------------------------------------------------------------------ state
VARIABLES
    module,        \* the domain module that runs: "city" | "company" | "emissions" |
                   \* "health" | "renewal"
    config,        \* self.config: max_concurrent_transactions, batch_size, method
    contracts,     \* keys of workflow.contracts (the loaded contract instances)
    cityData,      \* the city_data frame the caller passes: its columns and rows
                   \* (validate_data writes its date and value columns in place)
    validated,     \* what the validate_data calls of the module's run returned
    aggregated,    \* the rows of the frame the module loops over
    runPc,         \* process_emissions_data / calculate_city_health:
                   \* "idle" | "start" | "gather" | "returned" | "raised"
    runError,      \* what the run raised: "none" | "contract" | "schema" | "method"
                   \* | "range" | "batch"
    returnValue,   \* what the run returned: None, or a frame of rows
    batches,       \* the list built at lines 201-204: a sequence of sequences of records
    taskPc,        \* one task per batch: "scheduled" | "loop" | "awaitTx" |
                   \* "awaitReceipt" | "done" | "raised" | "cancelled"
    idx,           \* the position of each batch's for loop (1-based)
    sem,           \* transaction_semaphore: the free permits
    status,        \* per record: "Pending" | "Submitted" | "Confirmed" | "Failed"
    submitCount,   \* per record: how often transact() was invoked for it
    logFile,       \* the module's JSON log under logs/: kind "absent" | "ok" | "corrupt"
    appended,      \* records whose log_to_file call wrote its entry back
    logErrors,     \* the "Error logging to ..." messages of the workflow logger
                   \* during the module's run
    loop,          \* the event loop of asyncio.run: "running" | "closed"
    wfPc,          \* run_full_workflow: "standalone" | the module it is in |
                   \* "reports" | "returned" | "raised"
    wfError,       \* what run_full_workflow raised, and in which stage
    wfSummary,     \* per module that ran: submitted, confirmed, failed, logged records
    seqPc,         \* the for loop of city / company / renewal: "idle" | "start" |
                   \* "loop" | "awaitTx" | "awaitReceipt"
    seqIdx         \* its position (1-based)

runVars == <<config, cityData, runPc, runError, returnValue, batches, taskPc, idx>>
wfVars == <<wfPc, wfError, wfSummary, seqPc, seqIdx>>
vars == <<module, config, contracts, cityData, validated, aggregated, runPc, runError, returnValue, batches,
          taskPc, idx, sem, status, submitCount, logFile, appended, logErrors, loop,
          wfPc, wfError, wfSummary, seqPc, seqIdx>>

\* the order of run_full_workflow, lines 109-130
Stages == <<"city", "company", "emissions", "health", "renewal">>
Domains == {Stages[i] : i \in 1..Len(Stages)}
Position(d) == CHOOSE i \in 1..Len(Stages) : Stages[i] = d

\* the modules with a batch executor, and those with a plain for loop
ExecModules == {"emissions", "health"}
SeqModules == {"city", "company", "renewal"}

\* The contract each module submits to.
ContractOf(m) ==
    CASE m = "city" -> "CityRegister"
      [] m = "company" -> "CompanyRegister"
      [] m = "emissions" -> "CityEmissionsContract"
      [] m = "health" -> "CityHealthCalculator"
      [] m = "renewal" -> "RenewalTheoryContract"

SupportedMethods == {"sum", "mean", "max"}

Records == DOMAIN status

\* An entry of the log that predates the run.
OldEntry == [data |-> 0, receipt |-> TRUE]

\* ------------------------------------------------------------------ frames
\* A DataFrame is its set of columns and its rows (functions on the columns).
\* A date cell is its calendar day (ord) and its form: the text 'dd/mm/YYYY'
\* ("dmy"), the text 'YYYY-mm-dd' ("ymd"), or a Timestamp ("ts"). A value cell
\* is a number (in tenths: 10.5 is 105), NaN, or text that is no number.
Tenths == 10

RequiredColumns == {"city", "date", "sector", "value"}

\* validation_rules.value_range
ValueMin == 0
ValueMax == 100

Num(n) == [kind |-> "num", n |-> n]
NaN == [kind |-> "nan", n |-> 0]
Text == [kind |-> "text", n |-> 0]
NA == "<NA>"

Date(form, ord) == [form |-> form, ord |-> ord]

Frame(columns, rows) == [columns |-> columns, rows |-> rows]

\* ------------------------------------------------------------ sample data
\* _load_sample_data: city_data (its dates are Timestamps) and company_data
SampleCityData ==
    Frame(RequiredColumns,
          << [city |-> "CityA", date |-> Date("ts", 1), sector |-> "Energy", value |-> Num(105)],
             [city |-> "CityA", date |-> Date("ts", 2), sector |-> "Transport", value |-> Num(123)],
             [city |-> "CityB", date |-> Date("ts", 1), sector |-> "Energy", value |-> Num(87)],
             [city |-> "CityB", date |-> Date("ts", 2), sector |-> "Transport", value |-> Num(92)] >>)

SampleCompanyData ==
    Frame({"company_name", "registration_date", "sector", "emissions_baseline"},
          << [company_name |-> "CompanyX", registration_date |-> Date("ts", 1),
              sector |-> "Energy", emissions_baseline |-> Num(150)],
             [company_name |-> "CompanyY", registration_date |-> Date("ts", 2),
              sector |-> "Transport", emissions_baseline |-> Num(125)] >>)

RECURSIVE UniqueFrom(_, _)
\* Series.unique(): the distinct values in order of first appearance
UniqueFrom(seq, seen) ==
    IF seq = <<>> THEN <<>>
    ELSE IF Head(seq) \in seen THEN UniqueFrom(Tail(seq), seen)
    ELSE <<Head(seq)>> \o UniqueFrom(Tail(seq), seen \cup {Head(seq)})

\* a column taken as it is, repeated values included
AllValues(seq) == seq

Unique(seq) == UniqueFrom(seq, {})

Column(rows, c) == [i \in 1..Len(rows) |-> rows[i][c]]

\* pd.to_datetime(cell, format=fmt): a Timestamp passes as it is, a text must
\* match the format
Parses(fmt, d) == d.form = "ts" \/ d.form = fmt

\* .dt.strftime('%d/%m/%Y'): the form written is fixed, whatever date_format is
Strftime(d) == Date("dmy", d.ord)

\* the rows with the columns the renewal validator adds (lines 94-102)
DefaultOf(c) ==
    CASE c = "date" -> Date("ts", 1)
      [] c = "city" -> "Unknown"
      [] c = "sector" -> "total"
      [] c = "value" -> Num(0)

FillMissing(frame) ==
    Frame(frame.columns \cup RequiredColumns,
          [i \in 1..Len(frame.rows) |->
              [c \in frame.columns \cup RequiredColumns |->
                  IF c \in frame.columns THEN frame.rows[i][c] ELSE DefaultOf(c)]])

OutOfRange(v) == v.kind = "num" /\ (v.n < ValueMin * Tenths \/ v.n > ValueMax * Tenths)
InRange(v) == v.kind = "num" /\ v.n >= ValueMin * Tenths /\ v.n <= ValueMax * Tenths

\* the frame with the date and value columns rewritten (lines 91-97)
Converted(frame, coerce) ==
    Frame(frame.columns,
          [i \in 1..Len(frame.rows) |->
              [frame.rows[i] EXCEPT
                  !["date"] = Strftime(@),
                  !["value"] = IF coerce /\ @.kind # "num" THEN Num(0) ELSE @]])

\* a raise of validate_data; missing is its missing_columns
Raised(kind, missing) ==
    [error |-> kind, frame |-> Frame({}, <<>>), warned |-> 0, missing |-> missing]

\* validate_data of the renewal module: an absent column is added, a value that
\* is no number or out of range becomes 0. It returns the frame, the count of
\* its warning (0: no warning) and the columns that were missing.
ValidateFilling(cfg, frame) ==
    LET full == FillMissing(frame)
    IN  IF \E i \in 1..Len(full.rows) : ~Parses(cfg.date_format, full.rows[i].date)
        THEN Raised("date", RequiredColumns \ frame.columns)
        ELSE LET df == Converted(full, TRUE)
                 invalid_values == SelectSeq(df.rows, LAMBDA r : OutOfRange(r.value))
             IN  [error |-> "none",
                  frame |-> Frame(df.columns,
                                  [i \in 1..Len(df.rows) |->
                                      IF OutOfRange(df.rows[i].value)
                                      THEN [df.rows[i] EXCEPT !["value"] = Num(0)]
                                      ELSE df.rows[i]]),
                  warned |-> Len(invalid_values),
                  missing |-> RequiredColumns \ frame.columns]

\* a strict validator that fills an absent column as the renewal validator does
ValidateStrictFilling(cfg, frame) == ValidateFilling(cfg, frame)

\* validate_data of the emissions and health modules (the same code): a missing
\* column, an unparsable date or a value that is no number raises; rows out of
\* range are dropped with a warning
ValidateStrict(cfg, frame) ==
    IF RequiredColumns \ frame.columns # {}
    THEN Raised("schema", RequiredColumns \ frame.columns)
    ELSE IF \E i \in 1..Len(frame.rows) : ~Parses(cfg.date_format, frame.rows[i].date)
    THEN Raised("date", {})
    ELSE IF \E i \in 1..Len(frame.rows) : frame.rows[i].value.kind = "text"
    THEN Raised("numeric", {})
    ELSE LET df == Converted(frame, FALSE)
             invalid_values == SelectSeq(df.rows, LAMBDA r : OutOfRange(r.value))
         IN  IF invalid_values # <<>>
             THEN [error |-> "none",
                   frame |-> Frame(df.columns, SelectSeq(df.rows, LAMBDA r : InRange(r.value))),
                   warned |-> Len(invalid_values), missing |-> {}]
             ELSE [error |-> "none", frame |-> df, warned |-> 0, missing |-> {}]

validate_data(m, cfg, frame) ==
    IF m = "renewal" THEN ValidateFilling(cfg, frame) ELSE ValidateStrict(cfg, frame)

\* ------------------------------------------------------------- aggregation
GroupbyColumns == <<"city", "date", "sector">>

KeyOf(r) == [i \in 1..Len(GroupbyColumns) |-> r[GroupbyColumns[i]]]

\* groupby leaves out the rows with a missing value in a key column (dropna)
HasKey(r) == r.city # NA /\ r.sector # NA

\* groupby sorts the groups by key: by city, then date text, then sector
CityOrder == <<"CityA", "CityB", "CityC", "CityD", "CityE", "Unknown">>
SectorOrder == <<"Energy", "Transport", "total">>
IndexIn(seq, x) == CHOOSE i \in 1..Len(seq) : seq[i] = x
KeyBefore(k1, k2) ==
    LET c1 == IndexIn(CityOrder, k1[1])
        c2 == IndexIn(CityOrder, k2[1])
        s1 == IndexIn(SectorOrder, k1[3])
        s2 == IndexIn(SectorOrder, k2[3])
    IN  \/ c1 < c2
        \/ c1 = c2 /\ k1[2].ord < k2[2].ord
        \/ c1 = c2 /\ k1[2].ord = k2[2].ord /\ s1 < s2

RECURSIVE SumOf(_)
\* Series.sum(): NaN cells are skipped
SumOf(vs) ==
    IF vs = <<>> THEN 0
    ELSE (IF Head(vs).kind = "num" THEN Head(vs).n ELSE 0) + SumOf(Tail(vs))

Numbers(vs) == SelectSeq(vs, LAMBDA v : v.kind = "num")

\* Series.max(): the largest cell that is a number, NaN when there is none
MaxOf(vs) ==
    IF Numbers(vs) = <<>> THEN NaN
    ELSE Num(CHOOSE n \in {Numbers(vs)[i].n : i \in 1..Len(Numbers(vs))} :
                 \A i \in 1..Len(Numbers(vs)) : Numbers(vs)[i].n <= n)

\* Series.mean(): the sum of the numbers over their count (kept as a fraction)
MeanOf(vs) ==
    IF Numbers(vs) = <<>> THEN NaN
    ELSE [kind |-> "ratio", n |-> SumOf(vs), d |-> Len(Numbers(vs))]

Reduce(method, vs) ==
    CASE method = "sum" -> Num(SumOf(vs))
      [] method = "mean" -> MeanOf(vs)
      [] method = "max" -> MaxOf(vs)

ValuesOf(rows, key) ==
    LET group == SelectSeq(rows, LAMBDA r : HasKey(r) /\ KeyOf(r) = key)
    IN  [i \in 1..Len(group) |-> group[i].value]

GroupKeys(rows) ==
    SortSeq(Unique([i \in 1..Len(SelectSeq(rows, HasKey)) |->
                        KeyOf(SelectSeq(rows, HasKey)[i])]),
            KeyBefore)

\* an aggregation that takes a method it does not know for sum
AggregateAnyMethod(cfg, df) ==
    [error |-> "none",
     rows |-> [i \in 1..Len(GroupKeys(df.rows)) |->
                  [city |-> GroupKeys(df.rows)[i][1],
                   date |-> GroupKeys(df.rows)[i][2],
                   sector |-> GroupKeys(df.rows)[i][3],
                   value |-> Reduce(IF cfg.method \in SupportedMethods THEN cfg.method ELSE "sum",
                                    ValuesOf(df.rows, GroupKeys(df.rows)[i]))]]]

\* aggregate_emissions: one row per group, or the ValueError of line 136
aggregate_emissions(cfg, df) ==
    IF cfg.method \notin SupportedMethods
    THEN [error |-> "method", rows |-> <<>>]
    ELSE [error |-> "none",
          rows |-> [i \in 1..Len(GroupKeys(df.rows)) |->
                       [city |-> GroupKeys(df.rows)[i][1],
                        date |-> GroupKeys(df.rows)[i][2],
                        sector |-> GroupKeys(df.rows)[i][3],
                        value |-> Reduce(cfg.method, ValuesOf(df.rows, GroupKeys(df.rows)[i]))]]]

\* calculate_health_metrics: one row per value of df['city'].unique(); the rows
\* of a city are those whose cell equals it (none for a missing city)
calculate_health_metrics(df) ==
    LET cities == Unique(Column(df.rows, "city"))
        rowsOf(c) == SelectSeq(df.rows, LAMBDA r : c # NA /\ r.city = c)
    IN  [i \in 1..Len(cities) |->
            [city |-> cities[i],
             total_emissions |-> Num(SumOf(Column(rowsOf(cities[i]), "value"))),
             peak_emission |-> MaxOf(Column(rowsOf(cities[i]), "value"))]]

\* What validate_data leaves in the frame object it was given: the date and
\* value columns are assigned in place (lines 91-97), the filtering at line 108
\* makes a new frame. A to_numeric that raises comes after the dates were written.
MutatedByValidate(cfg, frame) ==
    LET v == ValidateStrict(cfg, frame)
    IN  IF v.error \in {"schema", "date"} THEN frame
        ELSE IF v.error = "numeric"
        THEN Frame(frame.columns,
                   [i \in 1..Len(frame.rows) |-> [frame.rows[i] EXCEPT !["date"] = Strftime(@)]])
        ELSE Converted(frame, FALSE)

\* calculate_renewal_metrics: both frames are validated, then one row per value
\* of validated_city_data['city'].unique()
calculate_renewal_metrics(cfg, city_data, company_data) ==
    LET vc == ValidateFilling(cfg, city_data)
        vk == ValidateFilling(cfg, company_data)
        cities == Unique(Column(vc.frame.rows, "city"))
        rowsOf(df, c) == SelectSeq(df.rows, LAMBDA r : c # NA /\ r.city = c)
    IN  IF vc.error # "none" THEN [error |-> vc.error, rows |-> <<>>, validated |-> <<vc>>]
        ELSE IF vk.error # "none"
        THEN [error |-> vk.error, rows |-> <<>>, validated |-> <<vc, vk>>]
        ELSE [error |-> "none",
              rows |-> [i \in 1..Len(cities) |->
                           [city |-> cities[i],
                            total_city_emissions |->
                                Num(SumOf(Column(rowsOf(vc.frame, cities[i]), "value"))),
                            company_emissions |->
                                Num(SumOf(Column(rowsOf(vk.frame, cities[i]), "value")))]],
              validated |-> <<vc, vk>>]

\* The frame of records a module loops over, for the city_data it is given:
\* the unique cities (city), the company rows, aggregated_data (emissions),
\* health_metrics (health), renewal_metrics (renewal); empty when the
\* module raises before it has them.
ModuleRows(m, cfg, city_data) ==
    CASE m = "city" ->
            [i \in 1..Len(Unique(Column(city_data.rows, "city"))) |->
                [city |-> Unique(Column(city_data.rows, "city"))[i]]]
      [] m = "company" -> SampleCompanyData.rows
      [] m = "emissions" ->
            IF ValidateStrict(cfg, city_data).error # "none" THEN <<>>
            ELSE aggregate_emissions(cfg, ValidateStrict(cfg, city_data).frame).rows
      [] m = "health" ->
            IF ValidateStrict(cfg, city_data).error # "none" THEN <<>>
            ELSE calculate_health_metrics(ValidateStrict(cfg, city_data).frame)
      [] m = "renewal" -> calculate_renewal_metrics(cfg, city_data, SampleCompanyData).rows

\* ------------------------------------------------------------ log_to_file
\* lines 296-300: a missing or unparsable file reads as the empty list
ReadLogs(file) == IF file.kind = "ok" THEN file.entries ELSE <<>>

\* lines 303-312: the entry built from the data and the receipt
LogEntry(data, receipt) == [data |-> data, receipt |-> receipt]

\* a write-back that puts the new entry first
WriteBackFirst(logs, entry) == [kind |-> "ok", entries |-> <<entry>> \o logs]

\* a write-back that forgets the entries read
WriteBackOnlyNew(logs, entry) == [kind |-> "ok", entries |-> <<entry>>]

\* lines 314-318: append, and write the whole list back
WriteBack(logs, entry) == [kind |-> "ok", entries |-> Append(logs, entry)]

\* lines 317-318 when json.dump raises on a value it cannot serialise: open(.., 'w')
\* has truncated the file and only a part of the list was written
WritePartial(logs, entry) == [kind |-> "corrupt", entries |-> <<>>]

\* log_to_file. Every exception is swallowed at lines 320-321:
\*   fault = "fail": raised before the file is written (makedirs, open);
\*   fault = "partial": raised by json.dump while it writes.
log_to_file(file, data, receipt, fault) ==
    CASE fault = "fail" -> file
      [] fault = "partial" -> WritePartial(ReadLogs(file), LogEntry(data, receipt))
      [] OTHER -> WriteBack(ReadLogs(file), LogEntry(data, receipt))

\* a log_to_file that lets the error of a failed write reach its caller
LogOutcomeRaises(fault) == IF fault = "none" THEN "returned" ELSE "raised"

\* lines 289, 320-321: whatever is raised inside log_to_file is caught, reported
\* with logger.error, and the call returns
LogOutcome(fault) == "returned"

\* line 321: one message of the workflow logger per failed call
LoggerErrors(fault) == IF fault = "none" THEN 0 ELSE 1

\* The log directory may not be writable. The rows the city, emissions, health
\* and renewal modules log hold strings and numbers only, which json.dump
\* writes; a company record holds its registration_date, a pandas Timestamp
\* (blockchainworkflow.py line 90, companymodule.py line 171), on which
\* json.dump raises a TypeError after it wrote the fields before it.
LogFaults == {"none", "fail"}
LogFaultsOf(m) == IF m = "company" THEN {"fail", "partial"} ELSE LogFaults

\* What the logs directory may hold for a module when it starts: log files
\* outlive the process, and an earlier run may have left entries or a damaged file.
StoredLogs ==
    {[kind |-> "absent", entries |-> <<>>],
     [kind |-> "ok", entries |-> <<OldEntry>>],
     [kind |-> "corrupt", entries |-> <<>>]}

\* ------------------------------------------------------------ partitioner
RECURSIVE Slices(_, _, _)
\* an off-by-one slice: aggregated_data[i:i+batch_size-1]
SlicesShort(agg, i, size) ==
    IF i > Len(agg) THEN <<>>
    ELSE <<SubSeq(agg, i, Min(i + size - 2, Len(agg)))>> \o Slices(agg, i + size, size)

\* lines 201-204: [aggregated_data[i:i+batch_size] for i in range(0, len, batch_size)]
\* (i is 1-based here)
Slices(agg, i, size) ==
    IF i > Len(agg) THEN <<>>
    ELSE <<SubSeq(agg, i, Min(i + size - 1, Len(agg)))>> \o Slices(agg, i + size, size)

\* range(0, len, size) is empty for a negative step; a zero step raises (StartRun)
Partition(agg, size) == IF size < 0 THEN <<>> ELSE Slices(agg, 1, size)

\* the aggregated frame: one record per grouping key
Aggregated == [i \in 1..Len(aggregated) |-> i]

\* ------------------------------------------------------------------- Init
NoSummary == [submitted |-> 0, confirmed |-> 0, failed |-> 0, logged |-> 0]

\* k valid rows with k different cities and grouping keys
PlainRow(k) ==
    [city |-> CityOrder[k], date |-> Date("dmy", 1),
     sector |-> SectorOrder[((k - 1) % 2) + 1], value |-> Num(50)]

PlainFrame(k) == Frame(RequiredColumns, [j \in 1..k |-> PlainRow(j)])

\* rows that differ from the first plain row in one cell: another or a missing
\* city, another day or form of the date, another, missing or unusable value
DataRows ==
    {[PlainRow(1) EXCEPT !["city"] = c] : c \in {"CityA", "CityB", NA}}
    \cup {[PlainRow(1) EXCEPT !["date"] = d] : d \in {Date("dmy", 2), Date("ymd", 1), Date("ts", 1)}}
    \cup {[PlainRow(1) EXCEPT !["value"] = v] : v \in {Num(70), Num(2000), NaN, Text}}

DataFrames ==
    {Frame(RequiredColumns, rows) : rows \in UNION {[1..k -> DataRows] : k \in 0..MaxRows}}

\* a frame without one of the required columns
MissingFrames ==
    {Frame(RequiredColumns \ {c}, <<[x \in RequiredColumns \ {c} |-> PlainRow(1)[x]]>>) :
        c \in RequiredColumns}

Inputs ==
    \* well-formed runs: every module, limit, batch size and record count
    [module : ExecModules, n : 1..MaxConcurrent, size : 1..MaxBatchSize, method : {"sum"},
     date_format : {"dmy"}, loaded : {TRUE}, frame : {PlainFrame(k) : k \in 0..MaxRecords},
     log : {"absent", "ok", "corrupt"}]
    \cup
    \* the degenerate configurations and the fatal ones
    [module : ExecModules, n : {0, 1}, size : {0 - 1, 0, 1},
     method : {"sum", "mean", "max", "median"}, date_format : {"dmy"},
     loaded : BOOLEAN, frame : {PlainFrame(2)} \cup MissingFrames, log : {"absent"}]
    \cup
    \* the datasets: every frame of a few rows, aggregation method and date format
    [module : {"emissions"}, n : {1}, size : {1, 2}, method : SupportedMethods,
     date_format : {"dmy", "ymd"}, loaded : {TRUE}, frame : DataFrames, log : {"absent"}]
    \cup
    [module : {"health"}, n : {1}, size : {1, 2}, method : {"sum"},
     date_format : {"dmy", "ymd"}, loaded : {TRUE}, frame : DataFrames, log : {"absent"}]

\* a module used on its own, with a configuration passed to its constructor
InitStandalone ==
    \E i \in Inputs :
        /\ module = i.module
        /\ config = [max_concurrent_transactions |-> i.n, batch_size |-> i.size,
                     method |-> i.method, date_format |-> i.date_format]
        /\ contracts = IF i.loaded THEN {ContractOf(i.module)} ELSE {}
        /\ cityData = i.frame
        /\ runPc = "start"
        /\ sem = i.n
        /\ logFile = [kind |-> i.log, entries |-> IF i.log = "ok" THEN <<OldEntry>> ELSE <<>>]
        /\ wfPc = "standalone"
        /\ seqPc = "idle"

\* main: BlockchainWorkflow() loaded the contracts whose artifact it found
\* (_load_contracts skips the others) and run_full_workflow starts with the
\* city module
InitWorkflow ==
    /\ module = Stages[1]
    /\ config = DefaultConfig
    /\ contracts \in SUBSET {ContractOf(d) : d \in Domains}
    /\ cityData = SampleCityData
    /\ runPc = "idle"
    /\ sem = DefaultMaxConcurrent
    /\ logFile \in StoredLogs
    /\ wfPc = Stages[1]
    /\ seqPc = "start"

Init ==
    /\ InitStandalone \/ InitWorkflow
    /\ validated = <<>>
    /\ aggregated = <<>>
    /\ status = <<>>
    /\ submitCount = <<>>
    /\ runError = "none"
    /\ returnValue = [none |-> TRUE, rows |-> <<>>]
    /\ batches = <<>>
    /\ taskPc = <<>>
    /\ idx = <<>>
    /\ appended = {}
    /\ logErrors = 0
    /\ loop = "running"
    /\ wfError = [kind |-> "none", stage |-> "none"]
    /\ wfSummary = [d \in Domains |-> NoSummary]
    /\ seqIdx = 1

\* ------------------------------------------------- process_emissions_data
\* The first fatal check that fails, in the order of lines 184-203, or "none".
FatalError ==
    IF ContractOf(module) \notin contracts THEN "contract"
    ELSE IF validate_data(module, config, cityData).error # "none"
    THEN validate_data(module, config, cityData).error
    ELSE IF /\ module = "emissions"
            /\ aggregate_emissions(config, validate_data(module, config, cityData).frame).error
                   # "none"
    THEN aggregate_emissions(config, validate_data(module, config, cityData).frame).error
    ELSE IF config.batch_size = 0 THEN "range"
    ELSE "none"

Indexes(n) == [i \in 1..n |-> i]

\* lines 182-208 up to the await: check, validate, aggregate, partition, create the tasks
StartRun ==
    /\ runPc = "start"
    /\ loop = "running"
    /\ validated' = IF FatalError = "contract" THEN <<>>
                    ELSE <<validate_data(module, config, cityData)>>
    /\ cityData' = IF FatalError = "contract" THEN cityData
                   ELSE MutatedByValidate(config, cityData)
    /\ aggregated' = IF FatalError \in {"none", "range"}
                     THEN ModuleRows(module, config, cityData) ELSE <<>>
    /\ status' = [r \in 1..Len(aggregated') |-> "Pending"]
    /\ submitCount' = [r \in 1..Len(aggregated') |-> 0]
    /\ IF FatalError # "none"
       THEN /\ runPc' = "raised"
            /\ runError' = FatalError
            /\ UNCHANGED <<batches, taskPc, idx>>
       ELSE /\ batches' = Partition(Indexes(Len(aggregated')), config.batch_size)
            /\ taskPc' = [b \in 1..Len(batches') |-> "scheduled"]
            /\ idx' = [b \in 1..Len(batches') |-> 1]
            /\ runPc' = "gather"
            /\ UNCHANGED runError
    /\ UNCHANGED <<module, config, contracts, returnValue, sem, logFile, appended,
                   logErrors, loop>>
    /\ UNCHANGED wfVars

Tasks == 1..Len(taskPc)

\* what process_emissions_data returns (it has no return statement), and what
\* calculate_city_health returns (line 246: the metrics frame)
ReturnOf(m) ==
    IF m = "emissions" THEN [none |-> TRUE, rows |-> <<>>]
    ELSE [none |-> FALSE, rows |-> [i \in 1..Len(Aggregated) |-> [record |-> Aggregated[i]]]]

\* line 208 returns: every task is done
GatherReturns ==
    /\ runPc = "gather"
    /\ loop = "running"
    /\ \A b \in Tasks : taskPc[b] = "done"
    /\ runPc' = "returned"
    /\ returnValue' = ReturnOf(module)
    /\ UNCHANGED <<module, validated, aggregated, config, contracts, cityData, runError, batches, taskPc, idx,
                   sem, status, submitCount, logFile, appended, logErrors, loop>>
    /\ UNCHANGED wfVars

\* line 208 raises the first exception of a task; lines 212-214 log and re-raise it
GatherRaises ==
    /\ runPc = "gather"
    /\ loop = "running"
    /\ \E b \in Tasks : taskPc[b] = "raised"
    /\ runPc' = "raised"
    /\ runError' = "batch"
    /\ UNCHANGED <<module, validated, aggregated, config, contracts, cityData, returnValue, batches, taskPc, idx,
                   sem, status, submitCount, logFile, appended, logErrors, loop>>
    /\ UNCHANGED wfVars

\* ------------------------------------------------ _process_emissions_batch
\* a semaphore that lets every task in
CanAcquireAlways == TRUE

\* asyncio.Semaphore.acquire returns at once only while a permit is free
CanAcquire == sem > 0

HoldsPermit(b) == taskPc[b] \in {"loop", "awaitTx", "awaitReceipt"}

\* a batch that starts its loop without taking a permit
EnterBatchNoPermit(b) ==
    /\ loop = "running"
    /\ taskPc[b] = "scheduled"
    /\ taskPc' = [taskPc EXCEPT ![b] = IF ContractOf(module) \in contracts
                                       THEN "loop" ELSE "raised"]
    /\ UNCHANGED <<module, validated, aggregated, config, contracts, cityData, runPc, runError,
                   returnValue, batches, idx, sem, status, submitCount, logFile, appended,
                   logErrors, loop>>
    /\ UNCHANGED wfVars

\* lines 147-149: take the permit, look the contract up; a KeyError goes to
\* lines 172-174, is re-raised, and the permit is given back by the async with
EnterBatch(b) ==
    /\ loop = "running"
    /\ taskPc[b] = "scheduled"
    /\ CanAcquire
    /\ IF ContractOf(module) \in contracts
       THEN /\ taskPc' = [taskPc EXCEPT ![b] = "loop"]
            /\ sem' = sem - 1
       ELSE /\ taskPc' = [taskPc EXCEPT ![b] = "raised"]
            /\ UNCHANGED sem
    /\ UNCHANGED <<module, validated, aggregated, config, contracts, cityData, runPc, runError, returnValue,
                   batches, idx, status, submitCount, logFile, appended, logErrors, loop>>
    /\ UNCHANGED wfVars

Current(b) == batches[b][idx[b]]

\* a loop that invokes transact() for a row and goes to the next row at once
InvokeSubmitAhead(b) ==
    /\ loop = "running"
    /\ taskPc[b] = "loop"
    /\ idx[b] <= Len(batches[b])
    /\ status' = [status EXCEPT ![Current(b)] = "Submitted"]
    /\ submitCount' = [submitCount EXCEPT ![Current(b)] = @ + 1]
    /\ idx' = [idx EXCEPT ![b] = @ + 1]
    /\ UNCHANGED <<module, validated, aggregated, config, contracts, cityData, runPc, runError,
                   returnValue, batches, taskPc, sem, logFile, appended, logErrors, loop>>
    /\ UNCHANGED wfVars

\* lines 151-160: the next row's transact() is invoked and awaited
InvokeSubmit(b) ==
    /\ loop = "running"
    /\ taskPc[b] = "loop"
    /\ idx[b] <= Len(batches[b])
    /\ status' = [status EXCEPT ![Current(b)] = "Submitted"]
    /\ submitCount' = [submitCount EXCEPT ![Current(b)] = @ + 1]
    /\ taskPc' = [taskPc EXCEPT ![b] = "awaitTx"]
    /\ UNCHANGED <<module, validated, aggregated, config, contracts, cityData, runPc, runError, returnValue,
                   batches, idx, sem, logFile, appended, logErrors, loop>>
    /\ UNCHANGED wfVars

\* a batch that ends without giving its permit back
FinishBatchKeepsPermit(b) ==
    /\ loop = "running"
    /\ taskPc[b] = "loop"
    /\ idx[b] > Len(batches[b])
    /\ taskPc' = [taskPc EXCEPT ![b] = "done"]
    /\ UNCHANGED <<module, validated, aggregated, config, contracts, cityData, runPc, runError,
                   returnValue, batches, idx, sem, status, submitCount, logFile, appended,
                   logErrors, loop>>
    /\ UNCHANGED wfVars

\* the for loop is exhausted: the async with block ends and releases the permit
FinishBatch(b) ==
    /\ loop = "running"
    /\ taskPc[b] = "loop"
    /\ idx[b] > Len(batches[b])
    /\ taskPc' = [taskPc EXCEPT ![b] = "done"]
    /\ sem' = sem + 1
    /\ UNCHANGED <<module, validated, aggregated, config, contracts, cityData, runPc, runError, returnValue,
                   batches, idx, status, submitCount, logFile, appended, logErrors, loop>>
    /\ UNCHANGED wfVars

\* a loop that logs the record as soon as its hash is back, without the receipt
SubmitReturnsAndLogs(b) ==
    /\ loop = "running"
    /\ taskPc[b] = "awaitTx"
    /\ logFile' = log_to_file(logFile, Current(b), FALSE, "none")
    /\ appended' = appended \cup {Current(b)}
    /\ status' = [status EXCEPT ![Current(b)] = "Confirmed"]
    /\ taskPc' = [taskPc EXCEPT ![b] = "loop"]
    /\ idx' = [idx EXCEPT ![b] = @ + 1]
    /\ UNCHANGED <<module, validated, aggregated, config, contracts, cityData, runPc, runError,
                   returnValue, batches, sem, submitCount, logErrors, loop>>
    /\ UNCHANGED wfVars

\* line 153 returns the transaction hash; line 162 awaits the receipt
SubmitReturns(b) ==
    /\ loop = "running"
    /\ taskPc[b] = "awaitTx"
    /\ taskPc' = [taskPc EXCEPT ![b] = "awaitReceipt"]
    /\ UNCHANGED <<module, validated, aggregated, config, contracts, cityData, runPc, runError, returnValue,
                   batches, idx, sem, status, submitCount, logFile, appended, logErrors, loop>>
    /\ UNCHANGED wfVars

\* a handler that lets the record's error end the batch
RecordFailsAbort(b) ==
    /\ status' = [status EXCEPT ![Current(b)] = "Failed"]
    /\ taskPc' = [taskPc EXCEPT ![b] = "raised"]
    /\ sem' = sem + 1
    /\ UNCHANGED idx

\* a handler that tries the same row again
RecordFailsRetry(b) ==
    /\ status' = [status EXCEPT ![Current(b)] = "Failed"]
    /\ taskPc' = [taskPc EXCEPT ![b] = "loop"]
    /\ UNCHANGED <<idx, sem>>

\* a handler that cancels the other tasks of the run
RecordFailsCancels(b) ==
    /\ status' = [status EXCEPT ![Current(b)] = "Failed"]
    /\ taskPc' = [c \in DOMAIN taskPc |->
                      IF c = b THEN "loop"
                      ELSE IF taskPc[c] \in {"scheduled", "loop", "awaitTx", "awaitReceipt"}
                      THEN "cancelled" ELSE taskPc[c]]
    /\ idx' = [idx EXCEPT ![b] = @ + 1]
    /\ sem' = sem + Cardinality({c \in DOMAIN taskPc \ {b} : HoldsPermit(c)})

\* lines 167-170: the record's error is logged and the loop continues
RecordFails(b) ==
    /\ status' = [status EXCEPT ![Current(b)] = "Failed"]
    /\ taskPc' = [taskPc EXCEPT ![b] = "loop"]
    /\ idx' = [idx EXCEPT ![b] = @ + 1]
    /\ UNCHANGED sem

\* line 153 raises
SubmitRaises(b) ==
    /\ loop = "running"
    /\ taskPc[b] = "awaitTx"
    /\ RecordFails(b)
    /\ UNCHANGED <<module, validated, aggregated, config, contracts, cityData, runPc, runError, returnValue,
                   batches, submitCount, logFile, appended, logErrors, loop>>
    /\ UNCHANGED wfVars

\* line 162 raises
ReceiptRaises(b) ==
    /\ loop = "running"
    /\ taskPc[b] = "awaitReceipt"
    /\ RecordFails(b)
    /\ UNCHANGED <<module, validated, aggregated, config, contracts, cityData, runPc, runError, returnValue,
                   batches, submitCount, logFile, appended, logErrors, loop>>
    /\ UNCHANGED wfVars

\* lines 162-165: the receipt arrives, the entry is logged, the loop goes on
ReceiptReturns(b) ==
    /\ loop = "running"
    /\ taskPc[b] = "awaitReceipt"
    /\ \E fault \in LogFaults :
        /\ logFile' = log_to_file(logFile, Current(b), TRUE, fault)
        /\ appended' = IF fault = "none" THEN appended \cup {Current(b)} ELSE appended
        /\ logErrors' = logErrors + LoggerErrors(fault)
        \* an exception out of line 164 would be caught at lines 167-170
        /\ status' = [status EXCEPT ![Current(b)] =
                          IF LogOutcome(fault) = "returned" THEN "Confirmed" ELSE "Failed"]
    /\ taskPc' = [taskPc EXCEPT ![b] = "loop"]
    /\ idx' = [idx EXCEPT ![b] = @ + 1]
    /\ UNCHANGED <<module, validated, aggregated, config, contracts, cityData, runPc, runError, returnValue,
                   batches, sem, submitCount, loop>>
    /\ UNCHANGED wfVars

\* ------------------------------------------------------------ environment
\* workflow.contracts is a plain dict of the shared workflow object; the run
\* checks it at line 184 and every batch reads it again at line 149, after it
\* got its permit. The owner of the workflow may drop the instance in between.
ContractUnloaded ==
    /\ runPc = "gather"
    /\ loop = "running"
    /\ ContractOf(module) \in contracts
    /\ contracts' = contracts \ {ContractOf(module)}
    /\ UNCHANGED <<module, validated, aggregated, config, cityData, runPc, runError, returnValue, batches,
                   taskPc, idx, sem, status, submitCount, logFile, appended, logErrors, loop>>
    /\ UNCHANGED wfVars

\* ------------------------------ register_city_data, register_company_data,
\* ------------------------------ calculate_renewal_metrics_workflow
\* Only the city module takes a permit, one per record, around the record's
\* transact, receipt wait and log (climatemodule.py line 198).
UsesSemaphore(m) == m = "city"

\* what the module raises before its loop: the contract is not loaded, or (renewal)
\* calculate_renewal_metrics raised
SeqFatalError ==
    IF ContractOf(module) \notin contracts THEN "contract"
    ELSE IF module = "renewal"
    THEN calculate_renewal_metrics(config, cityData, SampleCompanyData).error
    ELSE "none"

\* city 180-194, company 128-143, renewal 204-216: the contract check, then the
\* records to loop over
SeqStart ==
    /\ wfPc \in SeqModules
    /\ loop = "running"
    /\ seqPc = "start"
    /\ validated' = IF module = "renewal" /\ SeqFatalError # "contract"
                    THEN calculate_renewal_metrics(config, cityData, SampleCompanyData).validated
                    ELSE <<>>
    /\ aggregated' = IF SeqFatalError = "none"
                     THEN ModuleRows(module, config, cityData) ELSE <<>>
    /\ status' = [r \in 1..Len(aggregated') |-> "Pending"]
    /\ submitCount' = [r \in 1..Len(aggregated') |-> 0]
    /\ IF SeqFatalError # "none"
       THEN /\ wfPc' = "raised"
            /\ wfError' = [kind |-> SeqFatalError, stage |-> module]
            /\ seqPc' = "idle"
       ELSE /\ seqPc' = "loop"
            /\ UNCHANGED <<wfPc, wfError>>
    /\ UNCHANGED <<module, contracts, sem, logFile, appended, logErrors, loop,
                   wfSummary, seqIdx>>
    /\ UNCHANGED runVars

\* city 196-211, company 146-165, renewal 219-230: the next record's transact()
SeqInvoke ==
    /\ wfPc \in SeqModules
    /\ loop = "running"
    /\ seqPc = "loop"
    /\ seqIdx <= Len(status)
    /\ UsesSemaphore(module) => CanAcquire
    /\ sem' = IF UsesSemaphore(module) THEN sem - 1 ELSE sem
    /\ status' = [status EXCEPT ![seqIdx] = "Submitted"]
    /\ submitCount' = [submitCount EXCEPT ![seqIdx] = @ + 1]
    /\ seqPc' = "awaitTx"
    /\ UNCHANGED <<module, validated, aggregated, contracts, logFile, appended, logErrors, loop, wfPc, wfError, wfSummary,
                   seqIdx>>
    /\ UNCHANGED runVars

\* transact() returned the hash; the receipt is awaited (city 214, company 168,
\* renewal 233)
SeqSubmitReturns ==
    /\ wfPc \in SeqModules
    /\ loop = "running"
    /\ seqPc = "awaitTx"
    /\ seqPc' = "awaitReceipt"
    /\ UNCHANGED <<module, validated, aggregated, contracts, sem, status, submitCount, logFile, appended, logErrors, loop,
                   wfPc, wfError, wfSummary, seqIdx>>
    /\ UNCHANGED runVars

\* city 225-227, company 175-178, renewal 240-242: log the error and continue
SeqRecordFails ==
    /\ status' = [status EXCEPT ![seqIdx] = "Failed"]
    /\ seqPc' = "loop"
    /\ seqIdx' = seqIdx + 1
    /\ sem' = IF UsesSemaphore(module) THEN sem + 1 ELSE sem

\* transact() raises
SeqSubmitRaises ==
    /\ wfPc \in SeqModules
    /\ loop = "running"
    /\ seqPc = "awaitTx"
    /\ SeqRecordFails
    /\ UNCHANGED <<module, validated, aggregated, contracts, submitCount, logFile, appended, logErrors, loop, wfPc, wfError,
                   wfSummary>>
    /\ UNCHANGED runVars

\* wait_for_transaction_receipt raises
SeqReceiptRaises ==
    /\ wfPc \in SeqModules
    /\ loop = "running"
    /\ seqPc = "awaitReceipt"
    /\ SeqRecordFails
    /\ UNCHANGED <<module, validated, aggregated, contracts, submitCount, logFile, appended, logErrors, loop, wfPc, wfError,
                   wfSummary>>
    /\ UNCHANGED runVars

\* city 214-223, company 168-173, renewal 233-238: receipt, log entry, next record
SeqReceiptReturns ==
    /\ wfPc \in SeqModules
    /\ loop = "running"
    /\ seqPc = "awaitReceipt"
    /\ \E fault \in LogFaultsOf(module) :
        /\ logFile' = log_to_file(logFile, seqIdx, TRUE, fault)
        /\ appended' = IF fault = "none" THEN appended \cup {seqIdx} ELSE appended
        /\ logErrors' = logErrors + LoggerErrors(fault)
        /\ status' = [status EXCEPT ![seqIdx] =
                          IF LogOutcome(fault) = "returned" THEN "Confirmed" ELSE "Failed"]
    /\ seqPc' = "loop"
    /\ seqIdx' = seqIdx + 1
    /\ sem' = IF UsesSemaphore(module) THEN sem + 1 ELSE sem
    /\ UNCHANGED <<module, validated, aggregated, contracts, submitCount, loop, wfPc, wfError, wfSummary>>
    /\ UNCHANGED runVars

\* ------------------------------------------------------ run_full_workflow
\* what the module that runs has done so far
SummaryNow ==
    [submitted |-> Cardinality({r \in Records : submitCount[r] > 0}),
     confirmed |-> Cardinality({r \in Records : status[r] = "Confirmed"}),
     failed |-> Cardinality({r \in Records : status[r] = "Failed"}),
     logged |-> Cardinality(appended)]

\* the next module of lines 109-130 starts, with its default configuration, its
\* own semaphore and its own log file
EnterStage(d) ==
    /\ module' = d
    /\ config' = DefaultConfig
    /\ cityData' = cityData
    /\ validated' = <<>>
    /\ aggregated' = <<>>
    /\ runPc' = IF d \in ExecModules THEN "start" ELSE "idle"
    /\ runError' = "none"
    /\ returnValue' = [none |-> TRUE, rows |-> <<>>]
    /\ batches' = <<>>
    /\ taskPc' = <<>>
    /\ idx' = <<>>
    /\ sem' = DefaultMaxConcurrent
    /\ status' = <<>>
    /\ submitCount' = <<>>
    /\ logFile' \in StoredLogs
    /\ appended' = {}
    /\ logErrors' = 0
    /\ wfPc' = d
    /\ seqPc' = IF d \in SeqModules THEN "start" ELSE "idle"
    /\ seqIdx' = 1

\* the awaited module call returned: on to the next one, or to the reports
AdvanceStage ==
    /\ wfSummary' = [wfSummary EXCEPT ![module] = SummaryNow]
    /\ IF Position(module) < Len(Stages)
       THEN EnterStage(Stages[Position(module) + 1])
       ELSE /\ wfPc' = "reports"
            /\ seqPc' = "idle"
            /\ UNCHANGED <<module, validated, aggregated, config, cityData, runPc, runError, returnValue, batches,
                           taskPc, idx, sem, status, submitCount, logFile, appended, logErrors, seqIdx>>
    /\ UNCHANGED <<contracts, loop, wfError>>

\* a module call that returns before its loop is through
SeqFinishEarly ==
    /\ wfPc \in SeqModules
    /\ loop = "running"
    /\ seqPc = "loop"
    /\ AdvanceStage

\* lines 111, 115, 127: the for loop of a module is exhausted and the call returns
SeqFinish ==
    /\ wfPc \in SeqModules
    /\ loop = "running"
    /\ seqPc = "loop"
    /\ seqIdx > Len(status)
    /\ AdvanceStage

\* lines 119, 123: the executor's run returned
ExecReturned ==
    /\ wfPc \in ExecModules
    /\ loop = "running"
    /\ runPc = "returned"
    /\ AdvanceStage

\* lines 119, 123, 150-152: the executor's run raised; logged and re-raised
ExecRaised ==
    /\ wfPc \in ExecModules
    /\ loop = "running"
    /\ runPc = "raised"
    /\ wfPc' = "raised"
    /\ wfError' = [kind |-> runError, stage |-> module]
    /\ wfSummary' = [wfSummary EXCEPT ![module] = SummaryNow]
    /\ UNCHANGED <<module, validated, aggregated, contracts, sem, status, submitCount, logFile, appended, logErrors, loop,
                   seqPc, seqIdx>>
    /\ UNCHANGED runVars

\* the methods each module class defines
ModuleMethods(m) ==
    CASE m = "emissions" -> {"validate_data", "aggregate_emissions",
                             "_process_emissions_batch", "process_emissions_data"}
      [] m = "health" -> {"validate_data", "calculate_health_metrics",
                          "_calculate_city_health_batch", "calculate_city_health",
                          "generate_health_report"}
      [] m = "renewal" -> {"validate_data", "calculate_renewal_metrics",
                           "calculate_renewal_metrics_workflow", "generate_renewal_report",
                           "_aggregate_sector_reduction"}

\* lines 134-136: the report methods run_full_workflow calls
ReportCalls ==
    << [module |-> "emissions", method |-> "generate_emissions_report"],
       [module |-> "health", method |-> "generate_health_report"],
       [module |-> "renewal", method |-> "generate_renewal_report"] >>

\* lines 132-152: the reports are generated and the result dictionary is
\* returned; a method the module does not define is an AttributeError, which
\* lines 150-152 log and re-raise
GenerateReports ==
    /\ wfPc = "reports"
    /\ loop = "running"
    /\ IF \E i \in 1..Len(ReportCalls) :
             ReportCalls[i].method \notin ModuleMethods(ReportCalls[i].module)
       THEN /\ wfPc' = "raised"
            /\ wfError' = [kind |-> "AttributeError", stage |-> "reports"]
       ELSE /\ wfPc' = "returned"
            /\ UNCHANGED wfError
    /\ UNCHANGED <<module, validated, aggregated, contracts, sem, status, submitCount, logFile, appended, logErrors, loop,
                   wfSummary, seqPc, seqIdx>>
    /\ UNCHANGED runVars

\* ---------------------------------------------------------------- main
\* main, lines 340-379: run_workflow catches what the run raised (or prints what
\* it returned) and ends; asyncio.run then cancels every task that is not done.
\* CancelledError is no Exception: neither handler of the batch catches it, and
\* the async with gives the permit back. A standalone run is driven the same way.
Unfinished(b) == taskPc[b] \in {"scheduled", "loop", "awaitTx", "awaitReceipt"}

LoopShutdown ==
    /\ loop = "running"
    /\ \/ wfPc = "standalone" /\ runPc \in {"returned", "raised"}
       \/ wfPc \in {"returned", "raised"}
    /\ loop' = "closed"
    /\ taskPc' = [b \in Tasks |-> IF Unfinished(b) THEN "cancelled" ELSE taskPc[b]]
    /\ sem' = sem + Cardinality({b \in Tasks : HoldsPermit(b)})
    /\ UNCHANGED <<module, validated, aggregated, config, contracts, cityData, runPc, runError, returnValue,
                   batches, idx, status, submitCount, logFile, appended, logErrors>>
    /\ UNCHANGED wfVars

\* ------------------------------------------------------------------- Spec
Next ==
    \/ StartRun
    \/ GatherReturns
    \/ GatherRaises
    \/ ContractUnloaded
    \/ LoopShutdown
    \/ \E b \in Tasks : EnterBatch(b)
    \/ \E b \in Tasks : InvokeSubmit(b)
    \/ \E b \in Tasks : FinishBatch(b)
    \/ \E b \in Tasks : SubmitReturns(b)
    \/ \E b \in Tasks : SubmitRaises(b)
    \/ \E b \in Tasks : ReceiptRaises(b)
    \/ \E b \in Tasks : ReceiptReturns(b)
    \/ SeqStart
    \/ SeqInvoke
    \/ SeqSubmitReturns
    \/ SeqSubmitRaises
    \/ SeqReceiptRaises
    \/ SeqReceiptReturns
    \/ SeqFinish
    \/ ExecReturned
    \/ ExecRaised
    \/ GenerateReports

Spec == Init /\ [][Next]_vars

\* --------------------------------------------------------------- FairSpec
\* One run of process_emissions_data or calculate_city_health on its own, on
\* rows that pass validation, driven by asyncio.run: the event loop runs every
\* callback that is ready, so a step of the run or of a batch task that stays
\* possible is taken, and the ledger answers every call it was sent, with a
\* result or an error. Nothing is assumed of the owner of workflow.contracts.
InitRun ==
    /\ Init
    /\ wfPc = "standalone"
    /\ logFile.kind = "absent"
    /\ cityData \in {PlainFrame(k) : k \in 0..MaxRecords}

NextRun ==
    \/ StartRun
    \/ GatherReturns
    \/ GatherRaises
    \/ ContractUnloaded
    \/ LoopShutdown
    \/ \E b \in Tasks : EnterBatch(b)
    \/ \E b \in Tasks : InvokeSubmit(b)
    \/ \E b \in Tasks : FinishBatch(b)
    \/ \E b \in Tasks : SubmitReturns(b)
    \/ \E b \in Tasks : SubmitRaises(b)
    \/ \E b \in Tasks : ReceiptRaises(b)
    \/ \E b \in Tasks : ReceiptReturns(b)

Fairness ==
    /\ WF_vars(StartRun)
    /\ WF_vars(GatherReturns)
    /\ WF_vars(GatherRaises)
    /\ WF_vars(LoopShutdown)
    /\ \A b \in 1..MaxRecords :
          /\ WF_vars(b \in Tasks /\ EnterBatch(b))
          /\ WF_vars(b \in Tasks /\ InvokeSubmit(b))
          /\ WF_vars(b \in Tasks /\ FinishBatch(b))
          /\ WF_vars(b \in Tasks /\ (SubmitReturns(b) \/ SubmitRaises(b)))
          /\ WF_vars(b \in Tasks /\ (ReceiptReturns(b) \/ ReceiptRaises(b)))

FairSpec == InitRun /\ [][NextRun]_vars /\ Fairness

\* ================================================================ claims
Terminal(r) == status[r] \in {"Confirmed", "Failed"}

InFlight == {r \in Records : status[r] = "Submitted"}

\* the records the partitioner handed to the batch tasks
Scheduled == {r \in Records : \E b \in Tasks : \E k \in 1..Len(batches[b]) : batches[b][k] = r}

BatchOf(r) == CHOOSE b \in Tasks : \E k \in 1..Len(batches[b]) : batches[b][k] = r

\* C1: for every concurrency limit N >= 1, in every reachable state of a run the
\* number of records whose submit has started and whose outcome is not yet
\* determined is at most N, counted over all batches of the run.
C1_ConcurrencyBound ==
    config.max_concurrent_transactions >= 1
        => Cardinality(InFlight) <= config.max_concurrent_transactions

\* two records of two different batches are in flight, the limit is reached and
\* further batches are waiting for a permit
C1_Witness ==
    /\ config.max_concurrent_transactions = 2
    /\ Len(batches) > 2
    /\ Cardinality(InFlight) = 2
    /\ \E r1, r2 \in InFlight : BatchOf(r1) # BatchOf(r2)
    /\ \E b \in Tasks : taskPc[b] = "scheduled"

\* C2: a record whose submit or confirmation wait raised is Failed, its batch has
\* moved on past it and has not raised; a batch that is done has submitted every
\* one of its records exactly once and each is Confirmed or Failed; when the run
\* returns every batch is done (none raised); the run raises a batch error
\* only for a batch that raised, and such a batch has no failed record.
C2_PerRecordIsolation ==
    /\ \A b \in Tasks : \A k \in 1..Len(batches[b]) :
          status[batches[b][k]] = "Failed" => idx[b] > k /\ taskPc[b] # "raised"
    /\ \A b \in Tasks : taskPc[b] = "done" =>
          \A k \in 1..Len(batches[b]) :
              Terminal(batches[b][k]) /\ submitCount[batches[b][k]] = 1
    /\ runPc = "returned" => \A b \in Tasks : taskPc[b] = "done"
    /\ runError = "batch" => \E b \in Tasks : taskPc[b] = "raised"

\* the run returned although a record failed, and the record after the failed one
\* in the same batch was submitted and confirmed
C2_Witness ==
    /\ runPc = "returned"
    /\ \E b \in Tasks : \E k \in 1..(Len(batches[b]) - 1) :
          /\ status[batches[b][k]] = "Failed"
          /\ status[batches[b][k + 1]] = "Confirmed"

NewEntries == SelectSeq(ReadLogs(logFile), LAMBDA e : e.data # 0)

EntriesOf(r) == {i \in 1..Len(logFile.entries) : logFile.entries[i].data = r}

\* C3: after a run the domain's audit log holds exactly one new entry per
\* attempted record, whether its submission succeeded or failed.
C3_AuditCompleteness ==
    runPc = "returned" =>
        /\ Len(NewEntries) = Cardinality(Scheduled)
        /\ \A r \in Scheduled : Cardinality(EntriesOf(r)) = 1

\* C4: whatever the interleaving of the batch tasks, every entry that a
\* completed log_to_file call wrote back is in the log, once, in every later
\* state and so at the end of the run.
C4_NoLostAppend ==
    \A r \in appended : logFile.kind = "ok" /\ Cardinality(EntriesOf(r)) = 1

\* the run is over, the log that predates it was kept, and two batches appended
\* their entries in turns: an entry of the second batch lies between two entries
\* of the first
C4_Witness ==
    /\ loop = "closed"
    /\ runPc = "returned"
    /\ Len(logFile.entries) >= 4
    /\ logFile.entries[1] = OldEntry
    /\ \E i, j, k \in 1..Len(logFile.entries) :
          /\ i < j /\ j < k
          /\ logFile.entries[i].data # 0
          /\ BatchOf(logFile.entries[i].data) = BatchOf(logFile.entries[k].data)
          /\ BatchOf(logFile.entries[j].data) # BatchOf(logFile.entries[i].data)

C6_RecordLifecycle ==
    [][module' = module => \A r \in Records :
          /\ status[r] = "Pending" => status'[r] \in {"Pending", "Submitted"}
          /\ status[r] = "Submitted" => status'[r] \in {"Submitted", "Confirmed", "Failed"}
          /\ Terminal(r) => status'[r] = status[r]
          /\ submitCount'[r] <= 1
          /\ submitCount'[r] >= submitCount[r]]_vars

\* a record failed, was submitted once, and its batch went on to finish while
\* the record stayed Failed
C6_Witness ==
    \E b \in Tasks : \E k \in 1..Len(batches[b]) :
        /\ taskPc[b] = "done"
        /\ status[batches[b][k]] = "Failed"
        /\ submitCount[batches[b][k]] = 1
        /\ Len(batches[b]) > k

\* C7: a run that completes returns exactly one outcome per scheduled record,
\* tied to its record, failed exactly for the records whose submission raised.
C7_OutcomesReturned ==
    runPc = "returned" =>
        /\ ~returnValue.none
        /\ Len(returnValue.rows) = Cardinality(Scheduled)
        /\ \A i \in 1..Len(returnValue.rows) :
              /\ "success" \in DOMAIN returnValue.rows[i]
              /\ returnValue.rows[i].success = (status[returnValue.rows[i].record] = "Confirmed")

RECURSIVE Flatten(_)
Flatten(ss) == IF ss = <<>> THEN <<>> ELSE Head(ss) \o Flatten(Tail(ss))

Partitioned == runPc \in {"gather", "returned"} \/ runError = "batch"

\* C8: for M aggregated records and batch_size S >= 1 there are ceil(M/S)
\* batches, every batch but the last has exactly S records, no batch has more
\* than S or none, and the batches in order are the aggregated sequence.
C8_PartitionCoverage ==
    Partitioned /\ config.batch_size >= 1 =>
        LET M == Len(Aggregated)
            S == config.batch_size
        IN  /\ Len(batches) = (M + S - 1) \div S
            /\ \A b \in 1..(Len(batches) - 1) : Len(batches[b]) = S
            /\ \A b \in 1..Len(batches) : Len(batches[b]) >= 1 /\ Len(batches[b]) <= S
            /\ Flatten(batches) = Aggregated

\* three records in batches of two: a full batch and a shorter last one
C8_Witness ==
    /\ runPc = "gather"
    /\ config.batch_size = 2
    /\ batches = << <<1, 2>>, <<3>> >>

FatalKinds == {"contract", "schema", "method", "range"}

\* the submissions module d has issued in this run of the workflow
SubmitsIn(d) == IF d = module THEN SummaryNow.submitted ELSE wfSummary[d].submitted

\* C9: a workflow run that ends with a fatal configuration or schema error
\* (contract not loaded, missing column, unsupported method) has issued no
\* submit call at any earlier point of the run, in any module.
C9_FatalBeforeAnySubmission ==
    wfPc = "raised" /\ wfError.kind \in FatalKinds =>
        \A d \in Domains : SubmitsIn(d) = 0

\* C10: when no fatal stage fails, run_full_workflow returns a summary instead
\* of raising, also when record submissions failed, and the summary counts
\* attempted = succeeded + failed.
C10_BestEffortSummary ==
    /\ wfPc = "raised" => wfError.kind \in FatalKinds \cup {"batch"}
    /\ wfPc = "returned" =>
          \A d \in Domains :
              wfSummary[d].submitted = wfSummary[d].confirmed + wfSummary[d].failed

IsPrefix(s, t) == Len(s) <= Len(t) /\ SubSeq(t, 1, Len(s)) = s

\* C11: the audit log of a module is append-only: in every step of the module's
\* run the entries the log holds afterwards start with the entries it held
\* before, also when a write fails part-way or the stored log is unparsable.
C11_AppendOnly ==
    [][module' = module => IsPrefix(logFile.entries, logFile'.entries)]_vars

\* C12: log_to_file never raises to its caller: every call that fails is
\* reported by one message of the workflow logger, the record whose receipt
\* arrived is Confirmed whether its entry was written or not, and the batch
\* goes on (a batch that is done has passed every record).
C12_LogNeverRaises ==
    /\ Cardinality({r \in Records : status[r] = "Confirmed"})
           = Cardinality(appended) + logErrors
    /\ \A r \in Records : status[r] = "Failed" => r \notin appended

\* the run returned; the log write of a record failed, the record is Confirmed,
\* and the next record of the same batch was submitted, confirmed and logged
C12_Witness ==
    /\ runPc = "returned"
    /\ logErrors = 1
    /\ \E b \in Tasks : \E k \in 1..(Len(batches[b]) - 1) :
          /\ status[batches[b][k]] = "Confirmed"
          /\ batches[b][k] \notin appended
          /\ status[batches[b][k + 1]] = "Confirmed"
          /\ batches[b][k + 1] \in appended

\* C13 (as claimed): whenever a validator is given a frame that lacks a required
\* column it raises the fatal schema error and the module submits no record,
\* the renewal validator like the emissions and health validators.
C13_EveryValidatorRejects ==
    \A i \in 1..Len(validated) :
        validated[i].missing # {} =>
            validated[i].error = "schema" /\ SummaryNow.submitted = 0

\* C13 (amended): the emissions and health validators raise the schema error
\* for a frame that lacks a required column, the error ends the run and the
\* module has no record and submits none. The renewal validator does not
\* raise: it returns the rows with each absent column set to its default.
C13_StrictValidatorsReject ==
    \A i \in 1..Len(validated) :
        validated[i].missing # {} =>
            IF module \in ExecModules
            THEN /\ validated[i].error = "schema"
                 /\ runPc = "raised" /\ runError = "schema"
                 /\ aggregated = <<>> /\ batches = <<>>
                 /\ SummaryNow.submitted = 0
            ELSE /\ module = "renewal"
                 /\ validated[i].error = "none"
                 /\ RequiredColumns \subseteq validated[i].frame.columns
                 /\ \A k \in 1..Len(validated[i].frame.rows) :
                       \A c \in validated[i].missing :
                           validated[i].frame.rows[k][c] =
                               IF c = "date" THEN Strftime(DefaultOf(c)) ELSE DefaultOf(c)

\* the emissions run on a frame without its value column raised the schema error
C13_Witness ==
    /\ module = "emissions"
    /\ cityData.columns = RequiredColumns \ {"value"}
    /\ runPc = "raised"
    /\ runError = "schema"
    /\ validated[1].missing = {"value"}

\* C14: a run of the emissions or health module whose batch_size is zero or
\* negative makes no batch, submits no record and does not return normally:
\* the caller sees an error.
C14_NonPositiveBatchSizeRejected ==
    (module \in ExecModules /\ config.batch_size <= 0) =>
        /\ batches = <<>>
        /\ SummaryNow.submitted = 0
        /\ runPc # "returned"

\* C15: once the emissions module has validated and aggregated its dataset,
\* the aggregated records are in one-to-one correspondence with the distinct
\* key tuples of the validated rows (none invented, none dropped), and for
\* method sum (max) the value of a record is the sum (maximum) of the values
\* of all validated rows with its key.
C15_OneRecordPerKey ==
    (/\ module = "emissions"
     /\ validated # <<>>
     /\ validated[1].error = "none"
     /\ config.method \in SupportedMethods) =>
        LET rows == validated[1].frame.rows
            keys == {KeyOf(rows[i]) : i \in 1..Len(rows)}
            valuesOf(k) == Column(SelectSeq(rows, LAMBDA r : KeyOf(r) = k), "value")
        IN  /\ {KeyOf(aggregated[i]) : i \in 1..Len(aggregated)} = keys
            /\ Len(aggregated) = Cardinality(keys)
            /\ \A i \in 1..Len(aggregated) :
                  /\ config.method = "sum" =>
                        aggregated[i].value = Num(SumOf(valuesOf(KeyOf(aggregated[i]))))
                  /\ config.method = "max" =>
                        aggregated[i].value = MaxOf(valuesOf(KeyOf(aggregated[i])))

\* C16: a run of the emissions module configured with a method other than
\* sum, mean or max ends with an error raised to the caller (the unsupported
\* method error whenever the dataset passed validation), it has no aggregated
\* record, and no record is submitted or logged.
C16_UnsupportedMethodFatal ==
    (/\ module = "emissions"
     /\ config.method \notin SupportedMethods
     /\ runPc # "start") =>
        /\ runPc = "raised"
        /\ (validated # <<>> /\ validated[1].error = "none") => runError = "method"
        /\ aggregated = <<>>
        /\ batches = <<>>
        /\ SummaryNow.submitted = 0
        /\ appended = {}
        /\ NewEntries = <<>>

\* the run on two valid rows with method "median" raised the method error
C16_Witness ==
    /\ module = "emissions"
    /\ config.method = "median"
    /\ cityData = PlainFrame(2)
    /\ validated # <<>>
    /\ validated[1].error = "none"
    /\ runPc = "raised"
    /\ runError = "method"

\* C17: when the emissions or health validator returns, the count of its
\* warning equals the number of rows of its input that are not in its output
\* (0, no warning, when it dropped none), rows with a missing value included.
C17_ViolationCountExact ==
    (/\ module \in ExecModules
     /\ validated # <<>>
     /\ validated[1].error = "none") =>
        validated[1].warned = Len(cityData.rows) - Len(validated[1].frame.rows)

\* C18: when the emissions or health module validates a dataset that is
\* already valid (every required column, each date a text in the configured
\* date format, each value within the range), the validator returns the same
\* rows with the same cells and no warning, and validating what it returned
\* gives that result again.
C18_ValidationIdempotent ==
    [][(/\ runPc = "start"
        /\ module \in ExecModules
        /\ validated' # <<>>
        /\ RequiredColumns \subseteq cityData.columns
        /\ \A i \in 1..Len(cityData.rows) :
              /\ cityData.rows[i].date.form = config.date_format
              /\ InRange(cityData.rows[i].value)) =>
           /\ validated'[1].error = "none"
           /\ validated'[1].warned = 0
           /\ validated'[1].frame = cityData
           /\ validate_data(module, config, validated'[1].frame) = validated'[1]]_vars

\* C19: an emissions run with a positive batch size that returned, in which
\* the ledger confirmed every submission and every log write succeeded, has
\* issued exactly one submit and appended exactly one audit entry for each
\* distinct key tuple of the validated rows.
C19_OneSubmitAndEntryPerKey ==
    (/\ module = "emissions"
     /\ runPc = "returned"
     /\ config.batch_size > 0
     /\ logErrors = 0
     /\ validated # <<>>
     /\ validated[1].error = "none"
     /\ \A r \in Records : status[r] # "Failed") =>
        LET rows == validated[1].frame.rows
            keys == {KeyOf(rows[i]) : i \in 1..Len(rows)}
        IN  /\ \A k \in keys :
                  Cardinality({r \in Records : KeyOf(aggregated[r]) = k /\ submitCount[r] = 1}) = 1
            /\ \A r \in Records : submitCount[r] = 1 /\ Cardinality(EntriesOf(r)) = 1
            /\ Cardinality(Records) = Cardinality(keys)
            /\ Len(NewEntries) = Cardinality(keys)

\* C20 (as claimed): in the emissions, health and city modules every step that
\* submits a record takes a permit for it, and every step that records the
\* outcome of a record (Confirmed or Failed) gives the permit back.
C20_PermitPerRecord ==
    [][(module \in ExecModules \cup {"city"} /\ module' = module) =>
          \A r \in DOMAIN status \cap DOMAIN status' :
              /\ (status[r] # "Submitted" /\ status'[r] = "Submitted") => sem' = sem - 1
              /\ (status[r] = "Submitted" /\ status'[r] \in {"Confirmed", "Failed"}) =>
                    sem' = sem + 1]_vars

\* C20 (amended): the emissions and health modules take the permit per batch:
\* a task takes one permit when it enters its batch, the permit count does not
\* move when a record of the batch is submitted or its outcome recorded, and
\* the permit is given back only when the task ends its batch. The city
\* module takes the permit per record: a permit is taken by the step that
\* submits a record and given back by the step that records its outcome.
C20_PermitPerBatch ==
    [][(module' = module /\ loop' = "running") =>
          /\ module \in ExecModules =>
                /\ \A r \in DOMAIN status \cap DOMAIN status' :
                      status'[r] # status[r] => sem' = sem
                /\ \A b \in DOMAIN taskPc \cap DOMAIN taskPc' :
                      /\ (taskPc[b] = "scheduled" /\ taskPc'[b] = "loop") => sem' = sem - 1
                      /\ (taskPc[b] = "loop" /\ taskPc'[b] = "done") => sem' = sem + 1
                /\ sem' # sem =>
                      \E b \in DOMAIN taskPc \cap DOMAIN taskPc' :
                          \/ taskPc[b] = "scheduled" /\ taskPc'[b] = "loop"
                          \/ taskPc[b] = "loop" /\ taskPc'[b] = "done"
          /\ module = "city" =>
                \A r \in DOMAIN status \cap DOMAIN status' :
                    /\ (status[r] # "Submitted" /\ status'[r] = "Submitted") => sem' = sem - 1
                    /\ (status[r] = "Submitted" /\ status'[r] \in {"Confirmed", "Failed"}) =>
                          sem' = sem + 1]_vars

\* a task still holds its one permit while the second record of its batch is
\* with the ledger, the outcome of the first being recorded
C20_Witness ==
    /\ module \in ExecModules
    /\ \E b \in Tasks :
          /\ Len(batches[b]) >= 2
          /\ taskPc[b] = "awaitTx"
          /\ status[batches[b][1]] \in {"Confirmed", "Failed"}
          /\ status[batches[b][2]] = "Submitted"
          /\ sem = config.max_concurrent_transactions - 1

\* C21: in every module the steps of a record come in one order. A task (or
\* the sequential loop) starts to wait for the receipt only from the state in
\* which the submit call of its current record was pending, and waits for a
\* submit only by submitting a Pending record. An audit entry for a record is
\* appended only by the step in which its receipt arrives, the record going
\* from Submitted to Confirmed; every record with an entry is Confirmed.
C21_LifecycleOrder ==
    [][module' = module =>
          /\ \A b \in DOMAIN taskPc \cap DOMAIN taskPc' :
                /\ (taskPc'[b] = "awaitReceipt" /\ taskPc[b] # "awaitReceipt") =>
                      taskPc[b] = "awaitTx" /\ status[Current(b)] = "Submitted"
                /\ (taskPc'[b] = "awaitTx" /\ taskPc[b] # "awaitTx") =>
                      status[Current(b)] = "Pending" /\ status'[Current(b)] = "Submitted"
          /\ (seqPc' = "awaitReceipt" /\ seqPc # "awaitReceipt") =>
                seqPc = "awaitTx" /\ status[seqIdx] = "Submitted"
          /\ \A r \in DOMAIN status \cap DOMAIN status' :
                /\ (\/ r \in appended' \ appended
                    \/ Cardinality({i \in 1..Len(logFile'.entries) : logFile'.entries[i].data = r})
                          > Cardinality(EntriesOf(r))) =>
                      /\ status[r] = "Submitted" /\ status'[r] = "Confirmed"
                      /\ module \in ExecModules => taskPc[BatchOf(r)] = "awaitReceipt"
                      /\ module \in SeqModules => seqPc = "awaitReceipt" /\ seqIdx = r
                /\ {i \in 1..Len(logFile'.entries) : logFile'.entries[i].data = r} # {} =>
                      status'[r] = "Confirmed"]_vars

\* the first record of an emissions batch is Confirmed and has its one entry,
\* the second is waiting for its receipt and has none
C21_Witness ==
    /\ module = "emissions"
    /\ \E b \in Tasks :
          /\ Len(batches[b]) >= 2
          /\ taskPc[b] = "awaitReceipt"
          /\ status[batches[b][1]] = "Confirmed"
          /\ Cardinality(EntriesOf(batches[b][1])) = 1
          /\ status[batches[b][2]] = "Submitted"
          /\ EntriesOf(batches[b][2]) = {}

\* C22: the step in which a record's submission fails changes nothing but that
\* record and its own task, which goes on with its loop: every other task
\* keeps its position, every other record its status, the permits, the run
\* and the event loop are as before. A task is cancelled only in a run that
\* raised a batch error.
C22_FailureCancelsNothing ==
    [][module' = module =>
          /\ \A b \in DOMAIN taskPc \cap DOMAIN taskPc' :
                (/\ taskPc[b] \in {"awaitTx", "awaitReceipt"}
                 /\ status[Current(b)] = "Submitted"
                 /\ status'[Current(b)] = "Failed") =>
                    /\ taskPc'[b] = "loop"
                    /\ idx'[b] = idx[b] + 1
                    /\ \A c \in Tasks \ {b} : taskPc'[c] = taskPc[c] /\ idx'[c] = idx[c]
                    /\ \A r \in Records \ {Current(b)} : status'[r] = status[r]
                    /\ sem' = sem
                    /\ runPc' = runPc
                    /\ runError' = runError
                    /\ loop' = loop
          /\ (\E c \in DOMAIN taskPc' : taskPc'[c] = "cancelled") => runError' = "batch"]_vars

\* a record has just failed while a record of another batch is in flight and a
\* third batch has not started; nothing is cancelled and the run goes on
C22_Witness ==
    /\ runPc = "gather"
    /\ loop = "running"
    /\ \E b, c, d \in Tasks :
          /\ taskPc[b] = "loop" /\ idx[b] = 2 /\ status[batches[b][1]] = "Failed"
          /\ taskPc[c] \in {"awaitTx", "awaitReceipt"} /\ status[Current(c)] = "Submitted"
          /\ taskPc[d] = "scheduled"

C24_AppendAsLast ==
    [][module' = module =>
          \A r \in appended' \ appended :
              /\ logFile'.kind = "ok"
              /\ logFile'.entries =
                     Append(IF logFile.kind = "ok" THEN logFile.entries ELSE <<>>,
                            LogEntry(r, TRUE))
              /\ logFile.kind \in {"absent", "corrupt"} =>
                     logFile'.entries = <<LogEntry(r, TRUE)>>]_vars

\* the log that held one entry before the run holds it first, followed by the
\* entries of two records in the order of their calls
C24_Witness ==
    /\ logFile.kind = "ok"
    /\ Len(logFile.entries) = 3
    /\ logFile.entries[1] = OldEntry
    /\ logFile.entries[2].data \in appended
    /\ logFile.entries[3].data \in appended
    /\ logFile.entries[2].data # logFile.entries[3].data

\* C25: within a batch the records are handled one after another in batch
\* order: a record has left Pending only if every record before it in the
\* batch is Confirmed or Failed, at most one record of a batch is in flight,
\* a record after the current one has no audit entry, and the audit entries of
\* the records of one batch lie in the log in batch order.
C25_SequentialWithinBatch ==
    \A b \in Tasks :
        /\ \A k \in 1..Len(batches[b]) : \A j \in 1..(k - 1) :
              status[batches[b][k]] # "Pending" => Terminal(batches[b][j])
        /\ Cardinality({k \in 1..Len(batches[b]) : status[batches[b][k]] = "Submitted"}) <= 1
        /\ \A k \in 1..Len(batches[b]) :
              status[batches[b][k]] \in {"Pending", "Submitted"} => EntriesOf(batches[b][k]) = {}
        /\ \A k \in 1..Len(batches[b]) : \A j \in 1..(k - 1) :
              \A p \in EntriesOf(batches[b][k]) : \A q \in EntriesOf(batches[b][j]) : q < p

\* a health batch of two records has logged both, first the first, and the
\* entry of a record of another batch lies between them
C25_Witness ==
    /\ module = "health"
    /\ \E b \in Tasks :
          /\ Len(batches[b]) = 2
          /\ taskPc[b] = "done"
          /\ \E p \in EntriesOf(batches[b][1]) : \E q \in EntriesOf(batches[b][2]) :
                /\ p + 1 < q
                /\ logFile.entries[p + 1].data # 0
                /\ BatchOf(logFile.entries[p + 1].data) # b

C27_Termination ==
    /\ (runPc = "gather" /\ config.max_concurrent_transactions >= 1)
           ~> (runPc = "returned" /\ \A r \in Records : Terminal(r))
    /\ [](config.max_concurrent_transactions = 0 =>
              /\ runPc # "returned"
              /\ \A r \in Records : submitCount[r] = 0)

\* C28: run_full_workflow goes through the modules in the order city, company,
\* emissions, health, renewal. It moves on only to the next module in that
\* order, only from a run that has not raised and in which every record of the
\* current module is Confirmed or Failed; a module later than the current one
\* has submitted and logged nothing; once the workflow raised it stays with
\* the module that raised; and what the earlier modules submitted and logged
\* is never changed.
C28_StagesInOrder ==
    [][wfPc # "standalone" =>
          /\ module' # module =>
                /\ wfPc # "raised"
                /\ Position(module') = Position(module) + 1
                /\ \A r \in Records : Terminal(r)
                /\ wfSummary'[module] = SummaryNow
          /\ \A d \in Domains :
                /\ Position(d) > Position(module') => wfSummary'[d] = NoSummary
                /\ Position(d) < Position(module) => wfSummary'[d] = wfSummary[d]
          /\ wfPc = "raised" => wfPc' = "raised" /\ module' = module]_vars

\* the workflow raised in the emissions module: the city and company modules
\* before it have submitted their records, the city module has logged, and the
\* health and renewal modules after it have done nothing
C28_Witness ==
    /\ wfPc = "raised"
    /\ wfError.stage = "emissions"
    /\ module = "emissions"
    /\ wfSummary["city"].submitted = 2
    /\ wfSummary["city"].logged = 2
    /\ wfSummary["company"].submitted = 2
    /\ wfSummary["health"] = NoSummary
    /\ wfSummary["renewal"] = NoSummary

\* C29: in register_city_data the records are the distinct city names of the
\* dataset, one each, in the order of their first rows. Each is submitted at
\* most once, one at a time: a city is submitted only when every city before
\* it is Confirmed or Failed, so at most one submission is in flight and at
\* least four of the five permits are free. A failed city does not stop the
\* loop: when the loop is through, every city was submitted exactly once.
C29_OneSubmissionPerCity ==
    (module = "city" /\ seqPc # "start" /\ wfPc = "city") =>
        LET rows == cityData.rows
            names == {rows[i].city : i \in 1..Len(rows)}
            first(c) == CHOOSE i \in 1..Len(rows) :
                            rows[i].city = c /\ \A j \in 1..(i - 1) : rows[j].city # c
        IN  /\ Len(aggregated) = Cardinality(names)
            /\ {aggregated[r].city : r \in 1..Len(aggregated)} = names
            /\ \A r, q \in 1..Len(aggregated) :
                  r < q => first(aggregated[r].city) < first(aggregated[q].city)
            /\ Records = 1..Len(aggregated)
            /\ \A r \in Records : submitCount[r] <= 1
            /\ \A r, q \in Records : (q < r /\ status[r] # "Pending") => Terminal(q)
            /\ Cardinality(InFlight) <= 1
            /\ sem >= DefaultMaxConcurrent - 1
            /\ (seqPc = "loop" /\ seqIdx > Len(status)) =>
                  \A r \in Records : submitCount[r] = 1 /\ Terminal(r)

\* the submission of the first city failed and the second city is in flight
C29_Witness ==
    /\ module = "city"
    /\ wfPc = "city"
    /\ Len(cityData.rows) = 4
    /\ Len(status) = 2
    /\ status[1] = "Failed"
    /\ status[2] = "Submitted"
    /\ sem = DefaultMaxConcurrent - 1

\* C30: the frame a validator returned holds values within the range only
\* (the bounds included): from the renewal validator as many rows as the
\* dataset has, from the emissions and health validators rows of the dataset
\* in the dataset's order.
C30_ValuesWithinRange ==
    LET out == validated[1].frame.rows
        inp == cityData.rows
    IN  /\ (module = "renewal" /\ seqPc # "start" /\ validated # <<>>
                /\ validated[1].error = "none") =>
              /\ Len(out) = Len(inp)
              /\ \A i \in 1..Len(out) : InRange(out[i].value)
        /\ (module \in ExecModules /\ runPc # "start" /\ validated # <<>>
                /\ validated[1].error = "none") =>
              /\ \A i \in 1..Len(out) : InRange(out[i].value)
              /\ \E keep \in SUBSET (1..Len(inp)) :
                    /\ Len(out) = Cardinality(keep)
                    /\ \A i \in keep : out[Cardinality({k \in keep : k <= i})] = inp[i]

====
